---------------------------- MODULE Spec2Model ----------------------------
(***************************************************************************)
(* Posture control of the A1 quadruped (simulation/liba1.py): closed-form   *)
(* forward and inverse kinematics of one leg, the height / roll / pitch /   *)
(* yaw transform of the toe point, the motor-limit check and the dispatch   *)
(* of the twelve target positions to the simulator.                         *)
(*                                                                         *)
(* Numbers.  The program computes in IEEE doubles.  The model computes in   *)
(* fixed point: an angle or a cosine is an integer number of 1/Unit (1e-4   *)
(* rad, 1e-4), a length an integer number of 1/LenUnit mm (0.1 mm).  Every  *)
(* product and quotient is rounded to nearest, symmetrically in the sign,   *)
(* as IEEE arithmetic is, so cos 0 = 1, sin 0 = 0, sin(-a) = -sin a and     *)
(* cos(-a) = cos a hold exactly, as they do for numpy.  NaN is carried as   *)
(* a value of its own: it is produced where numpy produces it (sqrt of a    *)
(* negative, arccos outside [-1, 1], 0/0), every operation on it yields     *)
(* NaN and every comparison with it is false.  Statements "within 1e-6"     *)
(* are stated with the model's resolution Tol, which is far more lenient.   *)
(***************************************************************************)
EXTENDS Integers, Sequences, FiniteSets, TLC

VARIABLES
    motors,     \* the target positions last commanded to the simulator, per leg
    pc,         \* where postural_control is: idle, loop, dispatch, done
    cmd,        \* its arguments yaw_angle, pitch_angle, roll_angle, dz
    reference,  \* the caller's reference_posture object (None when not given)
    posture,    \* its local DataFrame: leg -> the three motor angles
    start,      \* history: the value of posture before the loop
    leg,        \* the loop's position in posture.items(): 1..4
    row,        \* the dispatch loop's position in itertuples(): 1..3
    reads,      \* calls of current_posture() in this invocation
    writes,     \* the jointIndices of each setJointMotorControlArray call of it
    logged,     \* the records it logged
    ret,        \* the value it returned
    ncalls,     \* invocations so far
    kpc,        \* kinematics harness: input, point, target, roundtrip, solved
    kleg,       \* the leg the harness computes for
    ktheta,     \* the angle triple given to _forward_kinematics
    kpoint,     \* the toe point given to _inverse_kinematics
    kout        \* the triple _inverse_kinematics returned

vars == <<motors, pc, cmd, reference, posture, start, leg, row, reads, writes,
          logged, ret, ncalls, kpc, kleg, ktheta, kpoint, kout>>
ctlVars == <<motors, pc, cmd, reference, posture, start, leg, row, reads, writes,
             logged, ret, ncalls>>
kinVars == <<kpc, kleg, ktheta, kpoint, kout>>

(***************************************************************************)
(* Fixed-point arithmetic.  An intermediate value that is used more than    *)
(* once is named by binding it in a one-element set, The({e(v) : v \in      *)
(* {...}}), so that it is computed once.                                    *)
(***************************************************************************)
Unit == 10 ^ 4
LenUnit == 10 ^ 1
NaN == -(2 ^ 30)
PosInf == 2 ^ 30 - 1
NegInf == -(2 ^ 30 - 1)
Pi == (31416 * Unit) \div 10000
HalfPi == Pi \div 2

The(S) == CHOOSE v \in S : TRUE
IsNaN(v) == v = NaN
Abs(a) == The({IF v < 0 THEN -v ELSE v : v \in {a}})
Milli(n) == n * (Unit \div 1000)

\* a / b rounded to nearest, halves away from zero (b > 0)
RDiv(a, b) ==
    The({IF v < 0 THEN -((d \div 2 - v) \div d) ELSE (v + d \div 2) \div d :
         v \in {a}, d \in {b}})
\* the product of a value and a fixed-point factor
FMul(a, b) == RDiv(a * b, Unit)

\* comparisons of doubles: false when an operand is NaN
Lt(a, b) == The({~IsNaN(v) /\ ~IsNaN(w) /\ v < w : v \in {a}, w \in {b}})
Le(a, b) == The({~IsNaN(v) /\ ~IsNaN(w) /\ v <= w : v \in {a}, w \in {b}})

FSub(a, b) ==
    The({IF IsNaN(v) \/ IsNaN(w) THEN NaN ELSE v - w : v \in {a}, w \in {b}})
FNeg(a) == The({IF IsNaN(v) THEN NaN ELSE -v : v \in {a}})

RECURSIVE SqrtFloor(_, _, _)
SqrtFloor(n, lo, hi) ==
    The({IF l >= h THEN l
         ELSE The({IF mid * mid <= m THEN SqrtFloor(m, mid, h)
                                     ELSE SqrtFloor(m, l, mid - 1) :
                   mid \in {(l + h + 1) \div 2}}) :
         m \in {n}, l \in {lo}, h \in {hi}})

\* np.sqrt: NaN for a negative (or NaN) argument, else the nearest root
FSqrt(a) ==
    The({IF IsNaN(v) \/ v < 0 THEN NaN
         ELSE The({IF v - r * r > r THEN r + 1 ELSE r :
                   r \in {SqrtFloor(v, 0, 46340)}}) :
         v \in {a}})

\* n decimal digits of rem / b (0 <= rem < b), and what remains
RECURSIVE LongDiv(_, _, _)
LongDiv(rem, b, n) ==
    The({IF k = 0 THEN <<0, r>>
         ELSE The({<<((r * 10) \div d) * 10 ^ (k - 1) + rest[1], rest[2]>> :
                   rest \in {LongDiv((r * 10) % d, d, k - 1)}}) :
         r \in {rem}, d \in {b}, k \in {n}})

\* a / b as a fixed-point value: NaN for 0/0, an infinity for x/0
FDiv(a, b) ==
    The({IF IsNaN(v) \/ IsNaN(w) THEN NaN
         ELSE IF w = 0 THEN (IF v = 0 THEN NaN ELSE IF v > 0 THEN PosInf ELSE NegInf)
         ELSE The({(IF (v < 0) = (w < 0) THEN 1 ELSE -1)
                     * ((m \div d) * Unit + f[1] + (IF 2 * f[2] >= d THEN 1 ELSE 0)) :
                   f \in {LongDiv(m % d, d, 4)}}) :
         v \in {a}, w \in {b}, m \in {Abs(a)}, d \in {Abs(b)}})

\* sin and cos on [0, pi/2] by their Taylor polynomials (Horner form)
SinCore(a) ==
    The({FMul(v, Unit - RDiv(FMul(v2, Unit - RDiv(FMul(v2,
                  Unit - RDiv(FMul(v2, Unit - RDiv(v2, 72)), 42)), 20)), 6)) :
         v \in {a}, v2 \in {FMul(a, a)}})

CosCore(a) ==
    The({Unit - RDiv(FMul(v2, Unit - RDiv(FMul(v2, Unit - RDiv(FMul(v2,
                  Unit - RDiv(FMul(v2, Unit - RDiv(v2, 90)), 56)), 30)), 12)), 2) :
         v2 \in {FMul(a, a)}})

\* an angle reduced to (-pi, pi]
Wrap(a) ==
    The({IF r = -Pi THEN Pi ELSE r : r \in {((a + Pi) % (2 * Pi)) - Pi}})

\* np.sin, np.cos
Sin(a) ==
    The({IF w < 0 THEN -SinCore(IF -w <= HalfPi THEN -w ELSE Pi + w)
                  ELSE SinCore(IF w <= HalfPi THEN w ELSE Pi - w) :
         w \in {Wrap(a)}})

Cos(a) ==
    The({IF m <= HalfPi THEN CosCore(m) ELSE -CosCore(Pi - m) :
         m \in {Abs(Wrap(a))}})

\* the angle in [0, pi/2] of the direction (x, y), x, y >= 0: the least t
\* with sin t * x - cos t * y >= 0
RECURSIVE AtanSearch(_, _, _, _)
AtanSearch(y, x, lo, hi) ==
    The({IF l >= h THEN l
         ELSE The({IF Sin(mid) * u - Cos(mid) * v >= 0
                   THEN AtanSearch(v, u, l, mid)
                   ELSE AtanSearch(v, u, mid + 1, h) :
                   mid \in {(l + h) \div 2}}) :
         v \in {y}, u \in {x}, l \in {lo}, h \in {hi}})

\* np.arctan2(y, x), in (-pi, pi]
ArcTan2(y, x) ==
    The({IF IsNaN(v) \/ IsNaN(u) THEN NaN
         ELSE IF v = 0 /\ u = 0 THEN 0
         ELSE The({IF u >= 0 THEN (IF v < 0 THEN -t ELSE t)
                             ELSE (IF v < 0 THEN -(Pi - t) ELSE Pi - t) :
                   t \in {AtanSearch(Abs(v), Abs(u), 0, HalfPi)}}) :
         v \in {y}, u \in {x}})

\* np.arccos: NaN outside [-1, 1] (and for NaN and the infinities)
ArcCos(a) ==
    The({IF IsNaN(v) \/ v > Unit \/ v < -Unit THEN NaN
         ELSE ArcTan2(FSqrt(Unit * Unit - v * v), v) :
         v \in {a}})

(***************************************************************************)
(* class A1: legs, motors, geometry                                        *)
(***************************************************************************)
Leg == <<"front-right", "front-left", "hind-right", "hind-left">>
Motor == <<"hip abduction/adduction", "hip flexion/extension", "knee">>
Legs == {Leg[i] : i \in 1..Len(Leg)}

\* the simulator's joint index of each motor: row = motor, column = leg
motor_indices ==
    <<  <<1, 6, 11, 16>>,
        <<3, 8, 13, 18>>,
        <<4, 9, 14, 19>> >>

thigh_len == 200
shank_len == 200
hip_offset == 80
body_len == 360
body_width == 200

RightLegs == {"front-right", "hind-right"}
FrontLegs == {"front-right", "front-left"}

\* h: the distance from the toe to the top centre of the thigh rod
Reach(th1, th2) ==
    FMul(thigh_len * LenUnit, Cos(th1)) + FMul(shank_len * LenUnit, Cos(th1 + th2))

\* mutant: the left legs computed with the right legs' formulas
FKSameSide(name, th0, th1, th2) ==
    The({<<FMul(-(thigh_len * LenUnit), Sin(th1)) - FMul(shank_len * LenUnit, Sin(th1 + th2)),
           FMul(o, c) - FMul(h, s),
           FMul(-o, s) - FMul(h, c)>> :
         o \in {hip_offset * LenUnit}, h \in {Reach(th1, th2)},
         c \in {Cos(th0)}, s \in {Sin(th0)}})

\* theta0, theta1, theta2 => x, y, z of the toe relative to the hip
forward_kinematics(name, th0, th1, th2) ==
    The({<<FMul(-(thigh_len * LenUnit), Sin(th1)) - FMul(shank_len * LenUnit, Sin(th1 + th2)),
           IF name \in RightLegs THEN FMul(o, c) - FMul(h, s)
                                 ELSE FMul(-o, c) - FMul(h, s),
           IF name \in RightLegs THEN FMul(-o, s) - FMul(h, c)
                                 ELSE FMul(o, s) - FMul(h, c)>> :
         o \in {hip_offset * LenUnit}, h \in {Reach(th1, th2)},
         c \in {Cos(th0)}, s \in {Sin(th0)}})

\* cos(theta2) by the law of cosines; NaN when h is
KneeCos(x, h) ==
    The({IF IsNaN(v) THEN NaN
         ELSE FDiv(-(l1 * l1) - l2 * l2 + x * x + v * v, 2 * l1 * l2) :
         v \in {h}, l1 \in {thigh_len * LenUnit}, l2 \in {shank_len * LenUnit}})

\* sin(theta2): the negative square root, the knee's position being negative
KneeSin(cos2) ==
    The({IF IsNaN(c) \/ c > Unit \/ c < -Unit THEN NaN
         ELSE FNeg(FSqrt(Unit * Unit - c * c)) :
         c \in {cos2}})

\* theta1 from the triangle hip - knee - toe
HipAngle(x, h) ==
    The({IF IsNaN(v) THEN NaN
         ELSE FSub(ArcCos(FDiv(l1 * l1 + u * u + v * v - l2 * l2,
                               2 * l1 * FSqrt(u * u + v * v))),
                   ArcTan2(u, v)) :
         u \in {x}, v \in {h}, l1 \in {thigh_len * LenUnit}, l2 \in {shank_len * LenUnit}})

\* x, y, z => theta0, theta1, theta2; an angle is NaN where numpy makes it so
inverse_kinematics(name, x, y, z) ==
    The({The({<<IF name \in RightLegs
                THEN FSub(ArcTan2(Abs(w), v), ArcTan2(h, o))
                ELSE FSub(ArcTan2(h, o), ArcTan2(Abs(w), -v)),
                HipAngle(u, h),
                The({ArcTan2(KneeSin(cos2), cos2) : cos2 \in {KneeCos(u, h)}})>> :
              h \in {FSqrt(w * w + v * v - o * o)}}) :
         u \in {x}, v \in {y}, w \in {z}, o \in {hip_offset * LenUnit}})

(***************************************************************************)
(* postural_control                                                        *)
(***************************************************************************)
None == <<>>
HasNaN(th) == IsNaN(th[1]) \/ IsNaN(th[2]) \/ IsNaN(th[3])

\* z -= dz
adjust_height(p, dz) == The({<<q[1], q[2], q[3] - dz>> : q \in {p}})

\* x, y, z after rolling by g about the body's longitudinal axis
roll(name, g, p) ==
    The({<<q[1],
           FMul(c, q[2]) + FMul(-s, q[3])
             + (IF name \in RightLegs THEN FMul(W, c) - W ELSE FMul(-W, c) + W),
           FMul(s, q[2]) + FMul(c, q[3])
             + (IF name \in RightLegs THEN FMul(W, s) ELSE FMul(-W, s))>> :
         q \in {p}, c \in {Cos(g)}, s \in {Sin(g)},
         W \in {(body_width * LenUnit) \div 2}})

\* x, z after pitching by b about the lateral axis
pitch(name, b, p) ==
    The({<<FMul(c, q[1]) + FMul(-s, q[3])
             + (IF name \in FrontLegs THEN FMul(L, c) - L ELSE FMul(-L, c) + L),
           q[2],
           FMul(s, q[1]) + FMul(c, q[3])
             + (IF name \in FrontLegs THEN FMul(L, s) ELSE FMul(-L, s))>> :
         q \in {p}, c \in {Cos(b)}, s \in {Sin(b)},
         L \in {(body_len * LenUnit) \div 2}})

\* x, y after yawing by a about the vertical axis: one matrix per body corner
yaw(name, a, p) ==
    The({<<FMul(c, q[1]) + FMul(-s, q[2])
             + (CASE name = "front-right" -> FMul(L, c) - FMul(W, s) - L
                  [] name = "front-left"  -> FMul(L, c) + FMul(W, s) - L
                  [] name = "hind-right"  -> FMul(-L, c) - FMul(W, s) + L
                  [] name = "hind-left"   -> FMul(-L, c) + FMul(W, s) + L),
           FMul(s, q[1]) + FMul(c, q[2])
             + (CASE name = "front-right" -> FMul(L, s) + FMul(W, c) - W
                  [] name = "front-left"  -> FMul(L, s) - FMul(W, c) + W
                  [] name = "hind-right"  -> FMul(-L, s) + FMul(W, c) - W
                  [] name = "hind-left"   -> FMul(-L, s) - FMul(W, c) + W),
           q[3]>> :
         q \in {p}, c \in {Cos(a)}, s \in {Sin(a)},
         L \in {(body_len * LenUnit) \div 2}, W \in {(body_width * LenUnit) \div 2}})

\* one pass of the loop body for one leg: FK, height, roll, pitch, yaw, IK
Candidate(name, th, c) ==
    The({inverse_kinematics(name, p[1], p[2], p[3]) :
         p \in {yaw(name, c.yaw,
                    pitch(name, c.pitch,
                          roll(name, c.roll,
                               adjust_height(
                                   forward_kinematics(name, th[1], th[2], th[3]),
                                   c.dz))))}})

\* mutant: the knee's range is not checked
LimitsOkNoKnee(th) ==
    \A t \in {th} :
        /\ Lt(Milli(-803), t[1]) /\ Lt(t[1], Milli(803))
        /\ Lt(Milli(-1047), t[2]) /\ Lt(t[2], Milli(4189))

\* mutant: the check written as "no angle is beyond a limit", which NaN passes
LimitsOkNaNBlind(th) ==
    \A t \in {th} :
        ~(\/ Le(t[1], Milli(-803)) \/ Le(Milli(803), t[1])
          \/ Le(t[2], Milli(-1047)) \/ Le(Milli(4189), t[2])
          \/ Le(t[3], Milli(-2697)) \/ Le(Milli(-916), t[3]))

\* all([-0.803 < th0 < 0.803, -1.047 < th1 < 4.189, -2.697 < th2 < -0.916])
LimitsOk(th) ==
    \A t \in {th} :
        /\ Lt(Milli(-803), t[1]) /\ Lt(t[1], Milli(803))
        /\ Lt(Milli(-1047), t[2]) /\ Lt(t[2], Milli(4189))
        /\ Lt(Milli(-2697), t[3]) /\ Lt(t[3], Milli(-916))

\* mutant: the candidate is kept apart and the frame left as it was
StoreBuffered(p, name, cand) == p

\* theta[0], theta[1], theta[2] = ...: theta is a view of the frame's column,
\* so the assignment overwrites the leg's entry of posture itself
StoreCandidate(p, name, cand) == [p EXCEPT ![name] = cand]

\* reference_posture.copy(): the working frame shares no storage with the
\* caller's object
SharesStorage == FALSE

\* mutant: the rejection is not logged
LogNothing(log) == log

\* logging.info('Motor limit reached')
LogLimit(log) == Append(log, "Motor limit reached")

\* mutant: one call per leg, as the loop's variable names say
BatchIndicesOfLeg(r) == {motor_indices[m][r] : m \in 1..Len(Motor)}

\* the jointIndices of the call for row r of motor_indices.itertuples():
\* one motor role, the four legs
BatchIndices(r) == {motor_indices[r][i] : i \in 1..Len(Leg)}

\* the stance commanded by __init__: 0, 0.7 and -0.7 * 2 for every leg
HomePosture == [l \in Legs |-> <<Milli(0), Milli(700), Milli(-700) * 2>>]

\* current_posture(): the joints are position controlled and have settled
\* at the targets last commanded
current_posture == motors

(***************************************************************************)
(* What the callers pass.  A command is (yaw, pitch, roll, dz); dz is in    *)
(* length units.                                                            *)
(***************************************************************************)
MaxCalls == 2

Command(a, b, g, dz) == [yaw |-> a, pitch |-> b, roll |-> g, dz |-> dz]
NoCommand == Command(0, 0, 0, 0)
Commands ==
    { Command(0, 0, 0, 0),                                  \* no change asked
      Command(0, 0, Milli(300), 0),                         \* a roll, as the slider of rolling.py gives
      Command(0, Milli(300), 0, 0),                         \* a pitch that overbends a hind knee
      Command(Milli(100), Milli(-100), Milli(-100), -50 * LenUnit),
      Command(0, 0, 0, 100 * LenUnit),                      \* toes 100 mm further down
      Command(0, 0, 0, -306 * LenUnit) }                    \* toes up to hip height

Uniform(th) == [l \in Legs |-> th]
References ==
    { None,
      Uniform(<<0, Milli(1000), Milli(-2697)>>),            \* knees at their limit
      Uniform(<<0, Milli(3000), Milli(-1000)>>) }           \* thighs swung up and back

(***************************************************************************)
(* postural_control, step by step                                          *)
(***************************************************************************)
Init ==
    /\ motors = HomePosture
    /\ pc = "idle"
    /\ cmd = NoCommand
    /\ reference = None
    /\ posture = None
    /\ start = None
    /\ leg = 0
    /\ row = 0
    /\ reads = 0
    /\ writes = <<>>
    /\ logged = <<>>
    /\ ret = "pending"
    /\ ncalls = 0
    /\ kpc = "off"
    /\ kleg = Leg[1]
    /\ ktheta = <<0, 0, 0>>
    /\ kpoint = <<0, 0, 0>>
    /\ kout = <<0, 0, 0>>

\* lines 107-113: the starting posture is sensed, or a copy of the reference
Call(c, ref) ==
    /\ pc = "idle"
    /\ ncalls < MaxCalls
    /\ cmd' = c
    /\ reference' = ref
    /\ posture' = IF ref = None THEN current_posture ELSE ref
    /\ reads' = IF ref = None THEN 1 ELSE 0
    /\ start' = posture'
    /\ leg' = 1
    /\ row' = 0
    /\ writes' = <<>>
    /\ logged' = <<>>
    /\ ret' = "pending"
    /\ ncalls' = ncalls + 1
    /\ pc' = "loop"
    /\ UNCHANGED <<motors, kinVars>>

\* lines 115-185: one iteration of the loop over posture.items()
LegStep ==
    /\ pc = "loop"
    /\ \E name \in {Leg[leg]} :
       \E stored \in {StoreCandidate(posture, name,
                                     Candidate(name, posture[name], cmd))} :
          /\ posture' = stored
          /\ reference' = IF reference # None /\ SharesStorage THEN stored
                          ELSE reference
          /\ IF ~LimitsOk(stored[name])
             THEN /\ logged' = LogLimit(logged)
                  /\ ret' = "None"
                  /\ pc' = "done"
                  /\ UNCHANGED <<leg, row>>
             ELSE /\ IF leg = Len(Leg)
                     THEN pc' = "dispatch" /\ row' = 1 /\ leg' = leg
                     ELSE pc' = "loop" /\ leg' = leg + 1 /\ row' = row
                  /\ UNCHANGED <<logged, ret>>
    /\ UNCHANGED <<motors, cmd, start, reads, writes, ncalls, kinVars>>

\* lines 188-194: one setJointMotorControlArray call per row of the frame
Dispatch ==
    /\ pc = "dispatch"
    /\ motors' = [l \in Legs |-> [motors[l] EXCEPT ![row] = posture[l][row]]]
    /\ writes' = Append(writes, BatchIndices(row))
    /\ IF row = Len(motor_indices)
       THEN pc' = "done" /\ ret' = "None" /\ row' = row
       ELSE pc' = "dispatch" /\ ret' = ret /\ row' = row + 1
    /\ UNCHANGED <<cmd, reference, posture, start, leg, reads, logged, ncalls,
                   kinVars>>

\* the call is over; its locals are gone
Return ==
    /\ pc = "done"
    /\ pc' = "idle"
    /\ cmd' = NoCommand
    /\ reference' = None
    /\ posture' = None
    /\ start' = None
    /\ leg' = 0
    /\ row' = 0
    /\ reads' = 0
    /\ writes' = <<>>
    /\ logged' = <<>>
    /\ ret' = "pending"
    /\ UNCHANGED <<motors, ncalls, kinVars>>

Next ==
    \/ \E c \in Commands, ref \in References : Call(c, ref)
    \/ LegStep
    \/ Dispatch
    \/ Return

Spec == Init /\ [][Next]_vars

(***************************************************************************)
(* The kinematics alone: _forward_kinematics and _inverse_kinematics        *)
(* applied to a grid of angle triples and of toe points                     *)
(***************************************************************************)
GridSteps == 2
Tol == 100

AngleGrid ==
    { <<Milli(300) * i, Milli(700) * j, Milli(-1000) - Milli(400) * k>> :
        i \in -GridSteps..GridSteps, j \in 0..(2 * GridSteps), k \in 0..(2 * GridSteps) }

PointGrid ==
    { <<100 * LenUnit * i, 40 * LenUnit * j, -150 * LenUnit * k>> :
        i \in 0..(GridSteps + 1), j \in -GridSteps..GridSteps, k \in 0..(GridSteps + 1) }

KinInit ==
    /\ motors = HomePosture
    /\ pc = "idle"
    /\ cmd = NoCommand
    /\ reference = None
    /\ posture = None
    /\ start = None
    /\ leg = 0
    /\ row = 0
    /\ reads = 0
    /\ writes = <<>>
    /\ logged = <<>>
    /\ ret = "pending"
    /\ ncalls = 0
    /\ kleg \in Legs
    /\ kout = <<0, 0, 0>>
    /\ \/ kpc = "input" /\ ktheta \in AngleGrid /\ kpoint = <<0, 0, 0>>
       \/ kpc = "target" /\ kpoint \in PointGrid /\ ktheta = <<0, 0, 0>>

KinForward ==
    /\ kpc = "input"
    /\ kpoint' = forward_kinematics(kleg, ktheta[1], ktheta[2], ktheta[3])
    /\ kpc' = "point"
    /\ UNCHANGED <<kleg, ktheta, kout, ctlVars>>

KinInverse ==
    /\ kpc \in {"point", "target"}
    /\ kout' = inverse_kinematics(kleg, kpoint[1], kpoint[2], kpoint[3])
    /\ kpc' = IF kpc = "point" THEN "roundtrip" ELSE "solved"
    /\ UNCHANGED <<kleg, ktheta, kpoint, ctlVars>>

KinNext == KinForward \/ KinInverse

KinSpec == KinInit /\ [][KinNext]_vars

(***************************************************************************)
(* Claims                                                                  *)
(***************************************************************************)
\* the motor ranges as the specification states them, closed and open
InsideClosed(th) ==
    /\ ~HasNaN(th)
    /\ Milli(-803) <= th[1] /\ th[1] <= Milli(803)
    /\ Milli(-1047) <= th[2] /\ th[2] <= Milli(4189)
    /\ Milli(-2697) <= th[3] /\ th[3] <= Milli(-916)
InsideOpen(th) ==
    /\ ~HasNaN(th)
    /\ Milli(-803) < th[1] /\ th[1] < Milli(803)
    /\ Milli(-1047) < th[2] /\ th[2] < Milli(4189)
    /\ Milli(-2697) < th[3] /\ th[3] < Milli(-916)
\* some angle is a number beyond its range
Outside(th) == ~HasNaN(th) /\ ~InsideClosed(th)
\* two triples agree within the model's resolution
Close(a, b) ==
    /\ ~HasNaN(a)
    /\ \A i \in 1..3 : a[i] - b[i] <= Tol /\ b[i] - a[i] <= Tol
\* the candidate of a leg in the running cycle, from the starting posture
Cand(l) == Candidate(l, start[l], cmd)
AllJoints == {motor_indices[m][i] : m \in 1..Len(Motor), i \in 1..Len(Leg)}

\* C1: if the candidate of some leg has an angle beyond its motor range, the
\* cycle writes nothing to the simulator; and every target position the
\* simulator ever holds is (strictly) inside the motor ranges.
C1_CycleAtomicity ==
    /\ \A l \in Legs : InsideOpen(motors[l])
    /\ writes = <<>> \/ ~(\E l \in Legs : \E c \in {Cand(l)} : Outside(c))
\* a second cycle, after a committed one, rejected at the third leg
C1_Witness ==
    /\ pc = "done" /\ ncalls = 2 /\ leg = 3 /\ writes = <<>>
    /\ motors # HomePosture
    /\ Outside(posture[Leg[3]])

\* C2: _inverse_kinematics, given a target with z^2 + y^2 < hip_offset^2 or
\* with |cos theta2| > 1, returns an UnreachableTarget outcome and no NaN.
TargetUnreachable(p) ==
    \E o \in {hip_offset * LenUnit}, far \in {(thigh_len + shank_len) * LenUnit},
       near \in {(thigh_len - shank_len) * LenUnit} :
       \E hh \in {p[3] * p[3] + p[2] * p[2] - o * o} :
          \/ hh < 0
          \/ p[1] * p[1] + hh > far * far
          \/ p[1] * p[1] + hh < near * near
Outcome(out) == IF HasNaN(out) THEN "angles with NaN" ELSE "angles"
C2_UnreachableDetected ==
    (kpc \in {"solved", "roundtrip"} /\ TargetUnreachable(kpoint))
        => Outcome(kout) = "UnreachableTarget"

C6_IdentityTransform ==
    (/\ pc = "done"
     /\ cmd = Command(0, 0, 0, 0)
     /\ \A l \in Legs : InsideOpen(start[l]))
        => /\ logged = <<>>
           /\ \A l \in Legs : Close(posture[l], start[l])

\* C7: _inverse_kinematics after _forward_kinematics gives back every
\* triple that is strictly within the motor ranges.
C7_RoundTrip ==
    (kpc = "roundtrip" /\ InsideOpen(ktheta)) => Close(kout, ktheta)

\* C8 (as claimed): front-right and front-left toes are mirror images for
\* the same angle triple.
Mirrored(p, q) == q[1] = p[1] /\ q[2] = -p[2] /\ q[3] = p[3]
C8_MirrorSameAngles ==
    (kpc = "point" /\ kleg = "front-right")
        => Mirrored(kpoint,
                    forward_kinematics("front-left", ktheta[1], ktheta[2], ktheta[3]))
\* C8 (amended): they are mirror images when the hip abduction angle is
\* negated on one side (and so for the same triple when theta0 = 0).
C8_MirrorNegatedHip ==
    (kpc = "point" /\ kleg = "front-right")
        => Mirrored(kpoint,
                    forward_kinematics("front-left", -ktheta[1], ktheta[2], ktheta[3]))
C8_Witness ==
    /\ kpc = "point" /\ kleg = "front-right" /\ ktheta[1] # 0
    /\ ~Mirrored(kpoint,
                 forward_kinematics("front-left", ktheta[1], ktheta[2], ktheta[3]))

\* C9: a cycle is committed exactly when every candidate is in the closed
\* motor ranges; an angle equal to a limit does not reject it.
C9_ClosedRanges ==
    pc = "done" => (logged = <<>> <=> \A l \in Legs : \E c \in {Cand(l)} : InsideClosed(c))

\* C10: a cycle in which the inverse kinematics of some leg yields NaN
\* writes nothing, and no target position the simulator holds is ever NaN.
C10_NoNaNDispatched ==
    /\ \A l \in Legs : ~HasNaN(motors[l])
    /\ writes = <<>> \/ ~(\E l \in Legs : \E c \in {Cand(l)} : HasNaN(c))
\* the three ways to NaN: inside the hip-offset circle, out of reach, 0/0
C10_Witness ==
    /\ pc = "done" /\ writes = <<>>
    /\ IsNaN(posture[Leg[leg]][1])
C10_WitnessOutOfReach ==
    /\ pc = "done" /\ writes = <<>>
    /\ ~IsNaN(posture[Leg[leg]][1]) /\ IsNaN(posture[Leg[leg]][3])
C10_WitnessZeroByZero ==
    /\ pc = "done" /\ writes = <<>>
    /\ IsNaN(posture[Leg[leg]][2]) /\ ~IsNaN(posture[Leg[leg]][3])

=============================================================================
